---- MODULE Spec2Model ----
(***************************************************************************)
(* A model of sbt::basic_char_view (src/include/char_view.h): a read-only  *)
(* view {m_str, m_size} over borrowed code units, with every scanning      *)
(* algorithm in a recursive form (RecursivePolicyEnabled, namespace        *)
(* details) and an iterative form (RecursivePolicyDisabled, mostly built   *)
(* on std::basic_string).                                                  *)
(*                                                                         *)
(* Memory.  A pointer is a record [buf, off]: buf is the sequence of code  *)
(* units stored in the buffer the pointer points into, off the 0-based     *)
(* offset of the pointer in it, so that p + k is Adv(p, k) and p[i] is     *)
(* At(p, i).  A code unit is its bit pattern 0..255; whether it is read as *)
(* a signed or an unsigned char is the build's choice (charSigned).        *)
(* size_t is modelled with SizeBits bits, npos being its largest value.    *)
(***************************************************************************)
EXTENDS Integers, Sequences, FiniteSets

VARIABLES
    m_str,       \* receiver view: pointer to its first code unit
    m_size,      \* receiver view: number of code units
    a_str,       \* argument of the call: pointer to the needle / character set
    a_len,       \* argument of the call: its declared number of code units
    a_pos,       \* argument of the call: a position (pos of str_hash)
    dm,          \* how the receiver was derived from the view s Init drew
    da,          \* how the argument was derived from s, when it is a view of it
    charSigned,  \* the build: TRUE when plain char is a signed type
    overflowTraps, \* the build: TRUE when signed int overflow traps (-ftrapv),
                 \* FALSE when it wraps modulo 2^32
    rangeCheck,  \* RangeCheckPolicyEnabled (TRUE) or RangeCheckPolicyDisabled
    errThrows,   \* ErrorPolicyThrowing (TRUE) or ErrorPolicyEmptyValue
    op,          \* name of the member function last called, "none" before
    shape,       \* call shape of that call: "z", "n", "v" or "s"
    rec,         \* its outcome under RecursivePolicyEnabled
    itr          \* its outcome under RecursivePolicyDisabled

vars == <<m_str, m_size, a_str, a_len, a_pos, dm, da, charSigned,
          overflowTraps, rangeCheck, errThrows, op, shape, rec, itr>>

(***************************************************************************)
(* Bounds of the model.                                                    *)
(***************************************************************************)
MaxLen == 3     \* longest receiver storage and longest needle, in code units
SizeBits == 8   \* width given to size_t / ssize_t
HashLen == 4    \* longest string hashed on its own

\* Code units used: the terminator, a plain one, one with the high bit set.
Chars == {0, 1, 200}

SizeMod == 2 ^ SizeBits

(***************************************************************************)
(* Pointers and code units.                                                *)
(***************************************************************************)
Ptr(buffer, offset) == [buf |-> buffer, off |-> offset]

At(p, i) == p.buf[p.off + i + 1]

Adv(p, k) == [buf |-> p.buf, off |-> p.off + k]

\* The value of a code unit as the build's plain char.
CharVal(c) == IF charSigned /\ c >= 128 THEN c - 256 ELSE c

\* static const size_t npos = -1
npos == SizeMod - 1

\* conversion of a ssize_t result to size_t
ToSize(n) == n % SizeMod

\* conversion of a size_t value to int / ssize_t
ToSigned(n) == IF n >= SizeMod \div 2 THEN n - SizeMod ELSE n

Min(a, b) == IF a <= b THEN a ELSE b

Sign(n) == IF n < 0 THEN -1 ELSE IF n > 0 THEN 1 ELSE 0

\* The units p[0 .. n-1] as a sequence (std::basic_string(p, n)).
Units(p, n) == [i \in 1..n |-> At(p, i - 1)]

(***************************************************************************)
(* 32-bit arithmetic of the hash.  An unsigned int is kept as its two      *)
(* 16-bit halves [hi, lo]; products and exclusive-ors wrap modulo 2^32.    *)
(***************************************************************************)
Half == 2 ^ 16

RECURSIVE BitXor(_, _)
BitXor(a, b) ==
    IF a = 0 THEN b
    ELSE IF b = 0 THEN a
    ELSE (((a % 2) + (b % 2)) % 2) + 2 * BitXor(a \div 2, b \div 2)

U32(n) == [hi |-> n \div Half, lo |-> n % Half]

\* 33 * h modulo 2^32
Mul33(h) ==
    [hi |-> ((33 * h.hi) + ((33 * h.lo) \div Half)) % Half,
     lo |-> (33 * h.lo) % Half]

\* c ^ h, the code unit c promoted to int first: a negative char is
\* sign-extended to 0xFFFFFFcc.
XorChar(c, h) ==
    IF CharVal(c) < 0
    THEN [hi |-> BitXor(h.hi, Half - 1), lo |-> BitXor(h.lo, Half - 256 + c)]
    ELSE [hi |-> h.hi, lo |-> BitXor(h.lo, c)]

MAGIC_NUM == 5381

\* INT_MAX / 33: the largest magnitude an int may have for 33 * it to be an int
IntMaxBy33 == (((2 ^ 30) - 1) * 2 + 1) \div 33

\* h read as an int: whether 33 * h is outside the range of int
Overflows33(h) ==
    LET neg == h.hi >= Half \div 2
        top == IF neg THEN Half - 1 - h.hi ELSE h.hi
        low == IF neg THEN Half - h.lo ELSE h.lo
    IN  top >= Half \div 64 \/ (top * Half) + low > IntMaxBy33

\* what a call leaves when the signed overflow trapped: the process aborted
Trap == [hi |-> -1, lo |-> -1]

(***************************************************************************)
(* struct details::no_inline: the iterative primitives.                    *)
(***************************************************************************)
\* first loop of str_hash_loop: walk end_pos to the terminator or the limit
RECURSIVE str_hash_end(_, _, _)
str_hash_end(str, end_pos, limit) ==
    IF limit # 0 /\ At(str, end_pos) # 0
    THEN str_hash_end(str, end_pos + 1, (limit - 1) % SizeMod)
    ELSE end_pos

\* second loop of str_hash_loop: fold backward from end_pos down to pos.
\* result is an int, so 33 * result has undefined behaviour when it
\* overflows: the build either wraps it or traps.
RECURSIVE str_hash_fold(_, _, _, _)
str_hash_fold(str, pos, end_pos, result) ==
    IF end_pos > pos
    THEN IF overflowTraps /\ Overflows33(result)
         THEN Trap
         ELSE str_hash_fold(str, pos, end_pos - 1,
                            XorChar(At(str, end_pos - 1), Mul33(result)))
    ELSE result

str_hash_loop(str, pos, limit) ==
    str_hash_fold(str, pos, str_hash_end(str, pos, limit), U32(MAGIC_NUM))

RECURSIVE no_inline_length_from(_, _)
no_inline_length_from(str, res) ==
    IF At(str, res) # 0 THEN no_inline_length_from(str, res + 1) ELSE res

no_inline_length(str) == no_inline_length_from(str, 0)

\* the while loops of no_inline::common_length, res being the loop counter
RECURSIVE no_inline_common_length_from(_, _, _, _, _)
no_inline_common_length_from(content, search_text, content_limit, search_limit, res) ==
    IF search_limit < 0
    THEN IF /\ content_limit > 0
            /\ At(search_text, res) = At(content, res)
            /\ At(content, res) # 0
         THEN no_inline_common_length_from(content, search_text,
                                           content_limit - 1, search_limit, res + 1)
         ELSE res
    ELSE IF /\ content_limit > 0
            /\ search_limit > 0
            /\ At(search_text, res) = At(content, res)
            /\ At(content, res) # 0
         THEN no_inline_common_length_from(content, search_text,
                                           content_limit - 1, search_limit - 1, res + 1)
         ELSE res

no_inline_common_length(content, search_text, content_limit, search_limit) ==
    IF search_limit = 0 THEN 0
    ELSE no_inline_common_length_from(content, search_text, content_limit, search_limit, 0)

(***************************************************************************)
(* namespace details: the recursive (constexpr) algorithms.                *)
(***************************************************************************)
RECURSIVE length(_)
length(str) == IF At(str, 0) # 0 THEN 1 + length(Adv(str, 1)) ELSE 0

RECURSIVE str_hash(_, _, _)
str_hash(str, pos, limit) ==
    IF limit = 0 \/ At(str, pos) = 0
    THEN U32(MAGIC_NUM)
    ELSE XorChar(At(str, pos), Mul33(str_hash(str, pos + 1, (limit - 1) % SizeMod)))

RECURSIVE starts_with(_, _, _, _)
starts_with(content, search_text, content_limit, search_limit) ==
    IF search_limit = 0 THEN TRUE
    ELSE IF content_limit = 0
         THEN (IF search_limit < 0 THEN At(search_text, 0) = 0 ELSE FALSE)
    ELSE IF At(content, 0) # At(search_text, 0)
         THEN At(search_text, 0) = 0
    ELSE IF At(content, 0) = 0 THEN TRUE
    ELSE starts_with(Adv(content, 1), Adv(search_text, 1),
                     content_limit - 1, search_limit - 1)

RECURSIVE common_length(_, _, _, _, _)
common_length(content, search_text, content_limit, search_limit, match_len) ==
    IF search_limit = 0 THEN match_len
    ELSE IF content_limit = 0 THEN match_len
    ELSE IF At(content, 0) # At(search_text, 0) THEN match_len
    ELSE IF At(content, 0) = 0 THEN match_len
    ELSE common_length(Adv(content, 1), Adv(search_text, 1),
                       content_limit - 1, search_limit - 1, match_len + 1)

RECURSIVE ends_with(_, _, _, _)
ends_with(content, search_text, content_pos, search_pos) ==
    IF search_pos < 0 THEN TRUE
    ELSE IF content_pos < 0 THEN FALSE
    ELSE IF At(content, content_pos) # At(search_text, search_pos) THEN FALSE
    ELSE ends_with(content, search_text, content_pos - 1, search_pos - 1)

RECURSIVE compare(_, _, _, _)
compare(content, search_text, content_limit, search_limit) ==
    IF search_limit = 0
    THEN (IF content_limit = 0 THEN 0 ELSE 1)
    ELSE IF content_limit = 0
         THEN (IF At(search_text, 0) = 0 THEN 0 ELSE -1)
    ELSE IF CharVal(At(content, 0)) > CharVal(At(search_text, 0)) THEN 1
    ELSE IF CharVal(At(content, 0)) < CharVal(At(search_text, 0)) THEN -1
    ELSE IF At(content, 0) = 0 THEN 0
    ELSE compare(Adv(content, 1), Adv(search_text, 1),
                 content_limit - 1, search_limit - 1)

RECURSIVE contains(_, _, _, _)
contains(content, search_text, content_limit, search_limit) ==
    IF content_limit < search_limit THEN FALSE
    ELSE IF content_limit = 0 THEN search_limit = 0
    ELSE IF compare(content, search_text, search_limit, search_limit) = 0 THEN TRUE
    ELSE contains(Adv(content, 1), search_text, content_limit - 1, search_limit)

RECURSIVE index_of(_, _, _, _, _)
index_of(content, search_text, content_limit, search_limit, offset) ==
    IF content_limit < search_limit THEN -1
    ELSE IF content_limit = 0
         THEN (IF search_limit = 0 THEN offset ELSE -1)
    ELSE IF starts_with(content, search_text, search_limit, search_limit) THEN offset
    ELSE index_of(Adv(content, 1), search_text, content_limit - 1, search_limit,
                  offset + 1)

RECURSIVE index_of_any(_, _, _, _, _)
index_of_any(content, search_set, content_limit, search_limit, offset) ==
    IF content_limit = 0 THEN -1
    ELSE IF search_limit = 0 THEN -1
    ELSE IF index_of(search_set, content, search_limit, 1, 0) >= 0 THEN offset
    ELSE index_of_any(Adv(content, 1), search_set, content_limit - 1, search_limit,
                      offset + 1)

RECURSIVE index_of_nonmatching(_, _, _, _, _)
index_of_nonmatching(content, search_set, content_limit, search_limit, offset) ==
    IF content_limit = 0
    THEN (IF search_limit = 0 THEN offset ELSE -1)
    ELSE IF index_of(search_set, content, search_limit, 1, 0) < 0 THEN offset
    ELSE index_of_nonmatching(Adv(content, 1), search_set, content_limit - 1,
                              search_limit, offset + 1)

RECURSIVE last_index_of(_, _, _, _, _, _)
last_index_of(content, search_text, content_limit, search_limit, offset, found_pos) ==
    IF content_limit < search_limit THEN found_pos
    ELSE IF content_limit = 0
         THEN (IF search_limit = 0 THEN offset ELSE found_pos)
    ELSE IF compare(content, search_text, search_limit, search_limit) = 0
         THEN last_index_of(Adv(content, 1), search_text, content_limit - 1,
                            search_limit, offset + 1, offset)
    ELSE last_index_of(Adv(content, 1), search_text, content_limit - 1,
                       search_limit, offset + 1, found_pos)

RECURSIVE last_index_of_any(_, _, _, _, _, _)
last_index_of_any(content, search_set, content_limit, search_limit, offset, found_pos) ==
    IF content_limit = 0
    THEN (IF search_limit = 0 THEN -1 ELSE found_pos)
    ELSE IF index_of(search_set, content, search_limit, 1, 0) >= 0
         THEN last_index_of_any(Adv(content, 1), search_set, content_limit - 1,
                                search_limit, offset + 1, offset)
    ELSE last_index_of_any(Adv(content, 1), search_set, content_limit - 1,
                           search_limit, offset + 1, found_pos)

RECURSIVE last_index_of_nonmatching(_, _, _, _, _, _)
last_index_of_nonmatching(content, search_set, content_limit, search_limit, offset, found_pos) ==
    IF content_limit = 0
    THEN (IF search_limit = 0 THEN offset ELSE found_pos)
    ELSE IF index_of(search_set, content, search_limit, 1, 0) < 0
         THEN last_index_of_nonmatching(Adv(content, 1), search_set, content_limit - 1,
                                        search_limit, offset + 1, offset)
    ELSE last_index_of_nonmatching(Adv(content, 1), search_set, content_limit - 1,
                                   search_limit, offset + 1, found_pos)

(***************************************************************************)
(* std::basic_string, as far as the iterative overloads use it.  A string  *)
(* is the sequence of its code units; positions are 0-based as in C++.     *)
(***************************************************************************)
\* std::basic_string from a zero-terminated pointer: the units before the first zero
std_string(str) == Units(str, no_inline_length_from(str, 0))

\* basic_string::substr(pos, n), for pos <= size()
std_substr(s, pos, n) == SubSeq(s, pos + 1, pos + Min(n, Len(s) - pos))

\* char_traits<char>::compare over the first n units: units compare as
\* unsigned char whatever the signedness of plain char
RECURSIVE std_traits_compare(_, _, _, _)
std_traits_compare(s, t, i, n) ==
    IF i > n THEN 0
    ELSE IF s[i] < t[i] THEN -1
    ELSE IF s[i] > t[i] THEN 1
    ELSE std_traits_compare(s, t, i + 1, n)

\* basic_string::compare: only the sign of the result is specified
std_compare(s, t) ==
    IF std_traits_compare(s, t, 1, Min(Len(s), Len(t))) # 0
    THEN std_traits_compare(s, t, 1, Min(Len(s), Len(t)))
    ELSE Sign(Len(s) - Len(t))

\* t occurs in s at 0-based position i
OccursAt(s, t, i) == i + Len(t) <= Len(s) /\ SubSeq(s, i + 1, i + Len(t)) = t

InSet(c, set) == \E k \in 1..Len(set) : set[k] = c

Lowest(S) == IF S = {} THEN npos ELSE CHOOSE x \in S : \A y \in S : x <= y

Highest(S) == IF S = {} THEN npos ELSE CHOOSE x \in S : \A y \in S : x >= y

\* basic_string::find(t, pos)
std_find(s, t, pos) == Lowest({i \in 0..Len(s) : i >= pos /\ OccursAt(s, t, i)})

\* basic_string::rfind(t, pos)
std_rfind(s, t, pos) == Highest({i \in 0..Len(s) : i <= pos /\ OccursAt(s, t, i)})

\* basic_string::find_first_of(set, pos)
std_find_first_of(s, set, pos) ==
    Lowest({i \in 0..(Len(s) - 1) : i >= pos /\ InSet(s[i + 1], set)})

\* basic_string::find_first_not_of(set, pos)
std_find_first_not_of(s, set, pos) ==
    Lowest({i \in 0..(Len(s) - 1) : i >= pos /\ ~InSet(s[i + 1], set)})

\* basic_string::find_last_of(set, pos)
\* a faulty variant: reports the offset one past the member found
std_find_last_of_past(s, set, pos) ==
    Highest({i + 1 : i \in {j \in 0..(Len(s) - 1) : j <= pos /\ InSet(s[j + 1], set)}})

std_find_last_of(s, set, pos) ==
    Highest({i \in 0..(Len(s) - 1) : i <= pos /\ InSet(s[i + 1], set)})

\* basic_string::find_last_not_of(set, pos)
std_find_last_not_of(s, set, pos) ==
    Highest({i \in 0..(Len(s) - 1) : i <= pos /\ ~InSet(s[i + 1], set)})

(***************************************************************************)
(* The policy classes.                                                     *)
(***************************************************************************)
\* outcome of a call: a returned value, or the exception of
\* ErrorPolicyThrowing::signal_range_check_error
Ret(v) == [thrown |-> FALSE, val |-> v]

Thrown == [thrown |-> TRUE, val |-> 0]

\* RangeCheckPolicyEnabled / RangeCheckPolicyDisabled
\* a faulty variant, off by one: the index one past the end passes the check
check_index_past_end(a_size, a_index) == rangeCheck /\ a_index > a_size

check_index_out_of_bounds(a_size, a_index) == rangeCheck /\ a_index >= a_size

check_is_empty(a_size) == rangeCheck /\ a_size = 0

(***************************************************************************)
(* class basic_char_view.  A member function takes the receiver as         *)
(* (ms, mz) = (m_str, m_size) and its argument as (as, al): the pointer    *)
(* a_str and, for the shapes that carry one, the length a_len (the size of *)
(* the view or of the owned string).  sh is the call shape:                *)
(*   "z" zero-terminated pointer    "n" pointer and length, and f_cn       *)
(*   "v" another basic_char_view    "s" a std::basic_string                *)
(***************************************************************************)
Shapes == {"z", "n", "v", "s"}

\* the string literal "" handed to the constructors by substr and back
EmptyLit == Ptr(<<0>>, 0)

\* the constructor from a pointer and an int a_size
View(p, a_size) == [str |-> p, size |-> ToSize(ToSigned(a_size))]

\* the constructor from a zero-terminated pointer
ViewZ(p) == [str |-> p, size |-> length(p)]

\* a faulty variant: substr without its range check
substr_unchecked(ms, mz, index, len) ==
    Ret(View(Adv(ms, index),
             IF (index + len) % SizeMod <= mz THEN len ELSE mz - index))

substr(ms, mz, index, len) ==
    IF check_index_out_of_bounds(mz, index)
    THEN (IF errThrows THEN Thrown ELSE Ret(View(EmptyLit, 0)))
    ELSE Ret(View(Adv(ms, index),
                  IF (index + len) % SizeMod <= mz THEN len ELSE mz - index))

front_n(ms, mz, len) == substr(ms, mz, 0, IF len <= mz THEN len ELSE mz)

back_n(ms, mz, len) ==
    IF len = 0 THEN Ret(ViewZ(EmptyLit))
    ELSE IF len <= mz THEN substr(ms, mz, mz - len, len)
    ELSE substr(ms, mz, 0, mz)

hash_code_Disabled(ms, mz) == str_hash_loop(ms, 0, mz)

hash_code_Enabled(ms, mz) == str_hash(ms, 0, mz)

equals_Disabled(sh, ms, mz, as, al) ==
    IF sh = "z"
    THEN no_inline_common_length(ms, as, mz, -1) = mz /\ At(as, mz) = 0
    ELSE IF al # mz THEN FALSE
    ELSE no_inline_common_length(ms, as, mz, mz) = mz

equals_Enabled(sh, ms, mz, as, al) ==
    IF sh = "z"
    THEN common_length(ms, as, mz, -1, 0) = mz /\ At(as, mz) = 0
    ELSE IF al # mz THEN FALSE
    ELSE starts_with(ms, as, mz, mz)

\* operator==(view ltr, view rtr) is rtr.equals(ltr)
view_eq_Disabled(ls, lz, rs, rz) == equals_Disabled("v", rs, rz, ls, lz)

\* operator==(view ltr, string rtr) is ltr.equals(rtr)
string_eq_Disabled(ls, lz, rs, rz) == equals_Disabled("s", ls, lz, rs, rz)

starts_with_Disabled(sh, ms, mz, as, al) ==
    CASE sh = "z" -> Ret(std_substr(std_string(as), 0, mz)
                         = Units(ms, Len(std_string(as))))
      [] sh = "n" -> Ret(Units(as, Min(al, mz)) = Units(ms, mz))
      [] sh = "v" -> IF substr(ms, mz, 0, al).thrown THEN Thrown
                     ELSE Ret(view_eq_Disabled(as, al,
                                               substr(ms, mz, 0, al).val.str,
                                               substr(ms, mz, 0, al).val.size))
      [] sh = "s" -> Ret(Units(as, al) = Units(ms, al))

starts_with_Enabled(sh, ms, mz, as, al) ==
    IF sh = "z" THEN Ret(starts_with(ms, as, mz, -1))
    ELSE Ret(starts_with(ms, as, mz, al))

\* the tail of the four iterative ends_with overloads, after the tests
\* "longer than the view" and "empty view"
ends_with_tail_Disabled(sh, ms, mz, as, al) ==
    IF sh \in {"z", "n"}
    THEN Ret(std_substr(Units(ms, mz), mz - al, al) = Units(as, al))
    ELSE IF substr(ms, mz, mz - al, al).thrown THEN Thrown
    ELSE IF sh = "v"
    THEN Ret(view_eq_Disabled(substr(ms, mz, mz - al, al).val.str,
                              substr(ms, mz, mz - al, al).val.size, as, al))
    ELSE Ret(string_eq_Disabled(substr(ms, mz, mz - al, al).val.str,
                                substr(ms, mz, mz - al, al).val.size, as, al))

ends_with_Disabled(sh, ms, mz, as, al) ==
    IF sh = "z"
    THEN (IF Len(std_string(as)) > mz THEN Ret(FALSE)
          ELSE IF mz = 0 THEN Ret(TRUE)
          ELSE ends_with_tail_Disabled(sh, ms, mz, as, Len(std_string(as))))
    ELSE (IF al > mz THEN Ret(FALSE)
          ELSE IF mz = 0 THEN Ret(TRUE)
          ELSE ends_with_tail_Disabled(sh, ms, mz, as, al))

ends_with_Enabled(sh, ms, mz, as, al) ==
    IF sh = "z" THEN Ret(ends_with(ms, as, mz - 1, length(as) - 1))
    ELSE Ret(ends_with(ms, as, mz - 1, al - 1))

\* compare(view) and compare(string) have one implementation for both policies
compare_Disabled(sh, ms, mz, as, al) ==
    CASE sh = "z" -> std_compare(Units(ms, mz), std_string(as))
      [] sh = "n" -> std_compare(std_substr(Units(ms, mz), 0, mz), Units(as, al))
      [] OTHER -> compare(ms, as, mz, al)

compare_Enabled(sh, ms, mz, as, al) ==
    IF sh = "z" THEN compare(ms, as, mz, -1) ELSE compare(ms, as, mz, al)

\* the needle of an iterative search: std::string's own reading of the argument
Needle(sh, as, al) == IF sh = "z" THEN std_string(as) ELSE Units(as, al)

\* the needle length of a recursive search
NeedleLen(sh, as, al) == IF sh = "z" THEN length(as) ELSE al

find_Disabled(sh, ms, mz, as, al) == std_find(Units(ms, mz), Needle(sh, as, al), 0)

find_Enabled(sh, ms, mz, as, al) ==
    ToSize(index_of(ms, as, mz, NeedleLen(sh, as, al), 0))

contains_Disabled(sh, ms, mz, as, al) ==
    std_find(Units(ms, mz), Needle(sh, as, al), 0) # npos

contains_Enabled(sh, ms, mz, as, al) == contains(ms, as, mz, NeedleLen(sh, as, al))

\* rfind of a zero-terminated pointer or a string searches from npos; the overloads
\* with a length pass 0 as the position to std::string::rfind
rfind_Disabled(sh, ms, mz, as, al) ==
    IF sh \in {"z", "s"}
    THEN std_rfind(Units(ms, mz), Needle(sh, as, al), npos)
    ELSE std_rfind(Units(ms, mz), Needle(sh, as, al), 0)

rfind_Enabled(sh, ms, mz, as, al) ==
    ToSize(last_index_of(ms, as, mz, NeedleLen(sh, as, al), 0, -1))

find_first_of_Disabled(sh, ms, mz, as, al) ==
    std_find_first_of(Units(ms, mz), Needle(sh, as, al), 0)

find_first_of_Enabled(sh, ms, mz, as, al) ==
    ToSize(index_of_any(ms, as, mz, NeedleLen(sh, as, al), 0))

find_first_not_of_Disabled(sh, ms, mz, as, al) ==
    std_find_first_not_of(Units(ms, mz), Needle(sh, as, al), 0)

find_first_not_of_Enabled(sh, ms, mz, as, al) ==
    ToSize(index_of_nonmatching(ms, as, mz, NeedleLen(sh, as, al), 0))

find_last_of_Disabled(sh, ms, mz, as, al) ==
    std_find_last_of(Units(ms, mz), Needle(sh, as, al), npos)

find_last_of_Enabled(sh, ms, mz, as, al) ==
    ToSize(last_index_of_any(ms, as, mz, NeedleLen(sh, as, al), 0, -1))

find_last_not_of_Disabled(sh, ms, mz, as, al) ==
    std_find_last_not_of(Units(ms, mz), Needle(sh, as, al), npos)

find_last_not_of_Enabled(sh, ms, mz, as, al) ==
    ToSize(last_index_of_nonmatching(ms, as, mz, NeedleLen(sh, as, al), 0, -1))

(***************************************************************************)
(* The state machine.  Init draws a receiver view and an argument; each    *)
(* action is one member function called once, in some call shape, its      *)
(* outcome recorded for both evaluation strategies.                        *)
(***************************************************************************)
\* all sequences of code units of length n, and of length up to n
UnitSeqs(n) == [1..n -> Chars]

UnitSeqsUpTo(n) == UNION {UnitSeqs(k) : k \in 0..n}

\* a view as Init drew it, of n code units: nothing derived from it yet
Whole(n) == [f |-> "s", index |-> 0, len |-> n, of |-> n]

NoCall ==
    /\ op = "none"
    /\ shape = "none"
    /\ rec = Ret(0)
    /\ itr = Ret(0)

\* The receiver is the first m_size units of a buffer of MaxLen units, so it
\* may be followed by a terminator or by more units of a longer buffer; the
\* argument is a buffer of a_len units followed by a terminator.
Init ==
    /\ \E mem \in UnitSeqs(MaxLen) : m_str = Ptr(mem, 0)
    /\ m_size \in 0..MaxLen
    /\ \E nmem \in UnitSeqsUpTo(MaxLen) :
          /\ a_str = Ptr(nmem \o <<0>>, 0)
          /\ a_len = Len(nmem)
    /\ a_pos = 0
    /\ dm = Whole(m_size)
    /\ da = Whole(a_len)
    /\ charSigned \in BOOLEAN
    /\ overflowTraps = FALSE
    /\ rangeCheck \in BOOLEAN
    /\ errThrows \in BOOLEAN
    /\ NoCall

Inputs == <<m_str, m_size, a_str, a_len, a_pos, dm, da,
            charSigned, overflowTraps, rangeCheck, errThrows>>

Call(name, sh, r, i) ==
    /\ op = "none"
    /\ op' = name
    /\ shape' = sh
    /\ rec' = r
    /\ itr' = i
    /\ UNCHANGED Inputs

StartsWith ==
    \E sh \in Shapes :
        Call("starts_with", sh,
             starts_with_Enabled(sh, m_str, m_size, a_str, a_len),
             starts_with_Disabled(sh, m_str, m_size, a_str, a_len))

EndsWith ==
    \E sh \in Shapes :
        Call("ends_with", sh,
             ends_with_Enabled(sh, m_str, m_size, a_str, a_len),
             ends_with_Disabled(sh, m_str, m_size, a_str, a_len))

Equals ==
    \E sh \in Shapes :
        Call("equals", sh,
             Ret(equals_Enabled(sh, m_str, m_size, a_str, a_len)),
             Ret(equals_Disabled(sh, m_str, m_size, a_str, a_len)))

Compare ==
    \E sh \in Shapes :
        Call("compare", sh,
             Ret(compare_Enabled(sh, m_str, m_size, a_str, a_len)),
             Ret(compare_Disabled(sh, m_str, m_size, a_str, a_len)))

Contains ==
    \E sh \in Shapes :
        Call("contains", sh,
             Ret(contains_Enabled(sh, m_str, m_size, a_str, a_len)),
             Ret(contains_Disabled(sh, m_str, m_size, a_str, a_len)))

Find ==
    \E sh \in Shapes :
        Call("find", sh,
             Ret(find_Enabled(sh, m_str, m_size, a_str, a_len)),
             Ret(find_Disabled(sh, m_str, m_size, a_str, a_len)))

RFind ==
    \E sh \in Shapes :
        Call("rfind", sh,
             Ret(rfind_Enabled(sh, m_str, m_size, a_str, a_len)),
             Ret(rfind_Disabled(sh, m_str, m_size, a_str, a_len)))

FindFirstOf ==
    \E sh \in Shapes :
        Call("find_first_of", sh,
             Ret(find_first_of_Enabled(sh, m_str, m_size, a_str, a_len)),
             Ret(find_first_of_Disabled(sh, m_str, m_size, a_str, a_len)))

FindFirstNotOf ==
    \E sh \in Shapes :
        Call("find_first_not_of", sh,
             Ret(find_first_not_of_Enabled(sh, m_str, m_size, a_str, a_len)),
             Ret(find_first_not_of_Disabled(sh, m_str, m_size, a_str, a_len)))

FindLastOf ==
    \E sh \in Shapes :
        Call("find_last_of", sh,
             Ret(find_last_of_Enabled(sh, m_str, m_size, a_str, a_len)),
             Ret(find_last_of_Disabled(sh, m_str, m_size, a_str, a_len)))

FindLastNotOf ==
    \E sh \in Shapes :
        Call("find_last_not_of", sh,
             Ret(find_last_not_of_Enabled(sh, m_str, m_size, a_str, a_len)),
             Ret(find_last_not_of_Disabled(sh, m_str, m_size, a_str, a_len)))

Next ==
    \/ StartsWith
    \/ EndsWith
    \/ Equals
    \/ Compare
    \/ Contains
    \/ Find
    \/ RFind
    \/ FindFirstOf
    \/ FindFirstNotOf
    \/ FindLastOf
    \/ FindLastNotOf

Spec == Init /\ [][Next]_vars

(***************************************************************************)
(* The hash on its own.  s is a zero-terminated string of up to HashLen    *)
(* code units; str_hash and str_hash_loop are applied to it from position  *)
(* a_pos with the limit a_len, and hash_code to the view of its first      *)
(* m_size units.                                                           *)
(***************************************************************************)
Limits == (0..(HashLen + 1)) \cup {npos}

InitHash ==
    /\ \E s \in UnitSeqsUpTo(HashLen) :
          /\ m_str = Ptr(s \o <<0>>, 0)
          /\ m_size \in 0..Len(s)
          /\ a_pos \in 0..Len(s)
    /\ a_str = m_str
    /\ a_len \in Limits
    /\ dm = Whole(m_size)
    /\ da = Whole(m_size)
    /\ charSigned \in BOOLEAN
    /\ overflowTraps \in BOOLEAN
    /\ rangeCheck = TRUE
    /\ errThrows = TRUE
    /\ NoCall

StrHash ==
    Call("str_hash", "z",
         Ret(str_hash(m_str, a_pos, a_len)),
         Ret(str_hash_loop(m_str, a_pos, a_len)))

HashCode ==
    Call("hash_code", "v",
         Ret(hash_code_Enabled(m_str, m_size)),
         Ret(hash_code_Disabled(m_str, m_size)))

NextHash ==
    \/ StrHash
    \/ HashCode

SpecHash == InitHash /\ [][NextHash]_vars

(***************************************************************************)
(* Views derived from one view s.  The receiver and the argument both      *)
(* start as s; the receiver is replaced by a substr of itself, the         *)
(* argument by a front(n) or a back(n) of itself, and the two are then     *)
(* compared with equals.  dm and da record the derivation made.            *)
(***************************************************************************)
Counts == 0..(MaxLen + 1)

InitDerive ==
    /\ \E mem \in UnitSeqs(MaxLen) : m_str = Ptr(mem, 0)
    /\ m_size \in 0..MaxLen
    /\ a_str = m_str
    /\ a_len = m_size
    /\ a_pos = 0
    /\ dm = Whole(m_size)
    /\ da = Whole(m_size)
    /\ charSigned = TRUE
    /\ overflowTraps = FALSE
    /\ rangeCheck \in BOOLEAN
    /\ errThrows \in BOOLEAN
    /\ NoCall

\* an exception leaves the call: nothing is derived and nothing follows
Throw(name) == Call(name, "v", Thrown, Thrown)

Substr ==
    /\ op = "none"
    /\ dm.f = "s"
    /\ \E index \in Counts, len \in Counts :
          LET r == substr(m_str, m_size, index, len) IN
          IF r.thrown THEN Throw("substr")
          ELSE /\ m_str' = r.val.str
               /\ m_size' = r.val.size
               /\ dm' = [f |-> "substr", index |-> index, len |-> len, of |-> m_size]
               /\ UNCHANGED <<a_str, a_len, a_pos, da, charSigned, overflowTraps, rangeCheck,
                              errThrows, op, shape, rec, itr>>

DeriveArg(name, n, r) ==
    IF r.thrown THEN Throw(name)
    ELSE /\ a_str' = r.val.str
         /\ a_len' = r.val.size
         /\ da' = [f |-> name, index |-> 0, len |-> n, of |-> a_len]
         /\ UNCHANGED <<m_str, m_size, a_pos, dm, charSigned, overflowTraps, rangeCheck,
                        errThrows, op, shape, rec, itr>>

Front ==
    /\ op = "none"
    /\ da.f = "s"
    /\ \E n \in Counts : DeriveArg("front", n, front_n(a_str, a_len, n))

Back ==
    /\ op = "none"
    /\ da.f = "s"
    /\ \E n \in Counts : DeriveArg("back", n, back_n(a_str, a_len, n))

\* the units of a view lie inside the storage its pointer points into
InStorage(p, n) == p.off <= Len(p.buf) /\ p.off + n <= Len(p.buf)

\* equals of two views; comparing units outside the storage is undefined
\* behaviour, which may answer either way.
EqualsViews ==
    IF InStorage(m_str, m_size) /\ InStorage(a_str, a_len)
    THEN Call("equals", "v",
              Ret(equals_Enabled("v", m_str, m_size, a_str, a_len)),
              Ret(equals_Disabled("v", m_str, m_size, a_str, a_len)))
    ELSE \E r \in BOOLEAN, i \in BOOLEAN : Call("equals", "v", Ret(r), Ret(i))

NextDerive ==
    \/ Substr
    \/ Front
    \/ Back
    \/ EqualsViews

SpecDerive == InitDerive /\ [][NextDerive]_vars

(***************************************************************************)
(* Element access and view derivation on their own: one call of            *)
(* operator[], at, front(), back(), substr, front(n) or back(n) on a view  *)
(* s, with the index a_pos and the length a_len.  None depends on the      *)
(* evaluation strategy, so rec and itr hold the same outcome.              *)
(***************************************************************************)
\* the lengths passed: small ones, the default npos, and large ones that
\* make index + len wrap around
Lens == Counts \cup {npos - 1, npos}

\* ErrorPolicy::signal_range_check_error(true, errorResult)
signal_range_check_error(errorResult) ==
    IF errThrows THEN Thrown ELSE Ret(errorResult)

\* m_str[index]: a read outside the storage m_str points into is undefined
\* behaviour and may give any code unit
ReadUnit(ms, index) ==
    IF InStorage(ms, index + 1)
    THEN {Ret(At(ms, index))}
    ELSE {Ret(c) : c \in Chars}

\* operator[](index): the outcomes it may have
subscript(ms, mz, index) ==
    IF check_index_out_of_bounds(mz, index)
    THEN {signal_range_check_error(0)}
    ELSE ReadUnit(ms, index)

at(ms, mz, index) == subscript(ms, mz, index)

front(ms, mz) == subscript(ms, mz, 0)

\* back(): with the check disabled on an empty view the index is
\* m_size - 1 = npos, the unit before the first
back(ms, mz) ==
    IF check_is_empty(mz)
    THEN {signal_range_check_error(0)}
    ELSE IF mz = 0 THEN {Ret(c) : c \in Chars}
    ELSE subscript(ms, mz, mz - 1)

InitAccess ==
    /\ \E mem \in UnitSeqs(MaxLen) : m_str = Ptr(mem, 0)
    /\ m_size \in 0..MaxLen
    /\ a_str = m_str
    /\ a_pos \in Counts
    /\ a_len \in Lens
    /\ dm = Whole(m_size)
    /\ da = Whole(m_size)
    /\ charSigned = TRUE
    /\ overflowTraps = FALSE
    /\ rangeCheck \in BOOLEAN
    /\ errThrows \in BOOLEAN
    /\ NoCall

\* a call whose outcome is the same under both strategies
Call1(name, r) == Call(name, "k", r, r)

Subscript == \E r \in subscript(m_str, m_size, a_pos) : Call1("operator[]", r)

AtIndex == \E r \in at(m_str, m_size, a_pos) : Call1("at", r)

FrontUnit == \E r \in front(m_str, m_size) : Call1("front", r)

BackUnit == \E r \in back(m_str, m_size) : Call1("back", r)

SubstrOf == Call1("substr", substr(m_str, m_size, a_pos, a_len))

FrontOf == Call1("front_n", front_n(m_str, m_size, a_len))

BackOf == Call1("back_n", back_n(m_str, m_size, a_len))

NextAccess ==
    \/ Subscript
    \/ AtIndex
    \/ FrontUnit
    \/ BackUnit
    \/ SubstrOf
    \/ FrontOf
    \/ BackOf

SpecAccess == InitAccess /\ [][NextAccess]_vars

(***************************************************************************)
(* A chain of derivations: the view s is replaced by s.substr(index, len), *)
(* s.front(n) or s.back(n), up to MaxChain times.  a_pos counts the        *)
(* derivations made, dm.of keeps the size L of the view the chain started  *)
(* from and dm.f the last member called.  A call that throws ends the      *)
(* chain.                                                                  *)
(***************************************************************************)
MaxChain == 2

InitChain ==
    /\ \E mem \in UnitSeqs(MaxLen) : m_str = Ptr(mem, 0)
    /\ m_size \in 0..MaxLen
    /\ a_str = m_str
    /\ a_len = 0
    /\ a_pos = 0
    /\ dm = Whole(m_size)
    /\ da = Whole(0)
    /\ charSigned = TRUE
    /\ overflowTraps = FALSE
    /\ rangeCheck \in BOOLEAN
    /\ errThrows \in BOOLEAN
    /\ NoCall

Derive(name, index, len, r) ==
    /\ op = "none"
    /\ a_pos < MaxChain
    /\ IF r.thrown THEN Throw(name)
       ELSE /\ m_str' = r.val.str
            /\ m_size' = r.val.size
            /\ a_pos' = a_pos + 1
            /\ dm' = [f |-> name, index |-> index, len |-> len, of |-> dm.of]
            /\ UNCHANGED <<a_str, a_len, da, charSigned, overflowTraps, rangeCheck,
                           errThrows, op, shape, rec, itr>>

ChainSubstr ==
    \E index \in Counts, len \in Lens :
        Derive("substr", index, len, substr(m_str, m_size, index, len))

ChainFront == \E n \in Counts : Derive("front_n", 0, n, front_n(m_str, m_size, n))

ChainBack == \E n \in Counts : Derive("back_n", 0, n, back_n(m_str, m_size, n))

NextChain ==
    \/ ChainSubstr
    \/ ChainFront
    \/ ChainBack

SpecChain == InitChain /\ [][NextChain]_vars

(***************************************************************************)
(* The position-returning members on their own: find, rfind and the four   *)
(* character-set searches, in every call shape.  None of them consults the *)
(* range-check or error policy, so both are fixed.                         *)
(***************************************************************************)
InitPosition ==
    /\ \E mem \in UnitSeqs(MaxLen) : m_str = Ptr(mem, 0)
    /\ m_size \in 0..MaxLen
    /\ \E nmem \in UnitSeqsUpTo(MaxLen) :
          /\ a_str = Ptr(nmem \o <<0>>, 0)
          /\ a_len = Len(nmem)
    /\ a_pos = 0
    /\ dm = Whole(m_size)
    /\ da = Whole(a_len)
    /\ charSigned \in BOOLEAN
    /\ overflowTraps = FALSE
    /\ rangeCheck = TRUE
    /\ errThrows = TRUE
    /\ NoCall

NextPosition ==
    \/ Find
    \/ RFind
    \/ FindFirstOf
    \/ FindFirstNotOf
    \/ FindLastOf
    \/ FindLastNotOf

SpecPosition == InitPosition /\ [][NextPosition]_vars

(***************************************************************************)
(* trim().  The member is not part of the header under src/; it is         *)
(* modelled from its description: the sub-view bounded by the first and    *)
(* the last code unit not in the whitespace set, found with the view's own *)
(* find_first_not_of and find_last_not_of, and a zero-length view when     *)
(* there is none.  The set is given as a pointer and a length.             *)
(***************************************************************************)
Space == 32

Tab == 9

WhiteSpace == <<Space, Tab>>

\* the code units of the views that are trimmed
TrimChars == {0, 1, Space, Tab}

trim_between(ms, mz, first, last) ==
    IF first = npos
    THEN Ret(View(EmptyLit, 0))
    ELSE substr(ms, mz, first, (last - first + 1) % SizeMod)

trim_Enabled(ms, mz, ws, wl) ==
    trim_between(ms, mz,
                 find_first_not_of_Enabled("n", ms, mz, ws, wl),
                 find_last_not_of_Enabled("n", ms, mz, ws, wl))

trim_Disabled(ms, mz, ws, wl) ==
    trim_between(ms, mz,
                 find_first_not_of_Disabled("n", ms, mz, ws, wl),
                 find_last_not_of_Disabled("n", ms, mz, ws, wl))

InitTrim ==
    /\ \E mem \in [1..MaxLen -> TrimChars] : m_str = Ptr(mem, 0)
    /\ m_size \in 0..MaxLen
    /\ a_str = Ptr(WhiteSpace \o <<0>>, 0)
    /\ a_len = Len(WhiteSpace)
    /\ a_pos = 0
    /\ dm = Whole(m_size)
    /\ da = Whole(a_len)
    /\ charSigned \in BOOLEAN
    /\ overflowTraps = FALSE
    /\ rangeCheck \in BOOLEAN
    /\ errThrows \in BOOLEAN
    /\ NoCall

Trim ==
    Call("trim", "k",
         trim_Enabled(m_str, m_size, a_str, a_len),
         trim_Disabled(m_str, m_size, a_str, a_len))

NextTrim == Trim

SpecTrim == InitTrim /\ [][NextTrim]_vars

(***************************************************************************)
(* The code units a call reads.  For starts_with, ends_with, equals and    *)
(* compare, in each call shape and under each strategy, the extent of the  *)
(* reads: content = k means that the units at the offsets below k from the *)
(* receiver's pointer may be read (k is the highest offset read plus one), *)
(* needle the same from the argument's pointer.  The operators follow the  *)
(* control flow of the value operators above; a std::basic_string built    *)
(* from (pointer, n) reads n units, one built from a zero-terminated       *)
(* pointer reads up to and including the terminator.                       *)
(***************************************************************************)
Reads(c, n) == [content |-> c, needle |-> n]

\* the reads of a recursive call made after reading offset 0 of both texts
Shift(r) == Reads(r.content + 1, r.needle + 1)

\* reads of a view over m_str + k, seen from m_str
Offset(r, k) == Reads(IF r.content = 0 THEN 0 ELSE r.content + k, r.needle)

Max(a, b) == IF a > b THEN a ELSE b

Both(r, q) == Reads(Max(r.content, q.content), Max(r.needle, q.needle))

\* the arguments swapped: the reads of f(needle, content)
Swap(r) == Reads(r.needle, r.content)

RECURSIVE starts_with_reads(_, _, _, _)
starts_with_reads(content, search_text, content_limit, search_limit) ==
    IF search_limit = 0 THEN Reads(0, 0)
    ELSE IF content_limit = 0
         THEN (IF search_limit < 0 THEN Reads(0, 1) ELSE Reads(0, 0))
    ELSE IF At(content, 0) # At(search_text, 0) THEN Reads(1, 1)
    ELSE IF At(content, 0) = 0 THEN Reads(1, 1)
    ELSE Shift(starts_with_reads(Adv(content, 1), Adv(search_text, 1),
                                 content_limit - 1, search_limit - 1))

RECURSIVE common_length_reads(_, _, _, _)
common_length_reads(content, search_text, content_limit, search_limit) ==
    IF search_limit = 0 THEN Reads(0, 0)
    ELSE IF content_limit = 0 THEN Reads(0, 0)
    ELSE IF At(content, 0) # At(search_text, 0) THEN Reads(1, 1)
    ELSE IF At(content, 0) = 0 THEN Reads(1, 1)
    ELSE Shift(common_length_reads(Adv(content, 1), Adv(search_text, 1),
                                   content_limit - 1, search_limit - 1))

\* details::ends_with reads content[content_pos] and search_text[search_pos]
\* first and lower offsets afterwards
ends_with_reads(content, search_text, content_pos, search_pos) ==
    IF search_pos < 0 THEN Reads(0, 0)
    ELSE IF content_pos < 0 THEN Reads(0, 0)
    ELSE Reads(content_pos + 1, search_pos + 1)

RECURSIVE compare_reads(_, _, _, _)
compare_reads(content, search_text, content_limit, search_limit) ==
    IF search_limit = 0 THEN Reads(0, 0)
    ELSE IF content_limit = 0 THEN Reads(0, 1)
    ELSE IF At(content, 0) # At(search_text, 0) THEN Reads(1, 1)
    ELSE IF At(content, 0) = 0 THEN Reads(1, 1)
    ELSE Shift(compare_reads(Adv(content, 1), Adv(search_text, 1),
                             content_limit - 1, search_limit - 1))

\* the loops of no_inline::common_length: offset res is read once both
\* limits have been found positive
RECURSIVE no_inline_common_length_reads_from(_, _, _, _, _)
no_inline_common_length_reads_from(content, search_text, content_limit, search_limit, res) ==
    IF content_limit > 0 /\ (search_limit < 0 \/ search_limit > 0)
    THEN IF At(search_text, res) = At(content, res) /\ At(content, res) # 0
         THEN no_inline_common_length_reads_from(
                  content, search_text, content_limit - 1,
                  IF search_limit < 0 THEN search_limit ELSE search_limit - 1, res + 1)
         ELSE Reads(res + 1, res + 1)
    ELSE Reads(res, res)

no_inline_common_length_reads(content, search_text, content_limit, search_limit) ==
    IF search_limit = 0 THEN Reads(0, 0)
    ELSE no_inline_common_length_reads_from(content, search_text, content_limit,
                                            search_limit, 0)

equals_reads_Disabled(sh, ms, mz, as, al) ==
    IF sh = "z"
    THEN Both(no_inline_common_length_reads(ms, as, mz, -1),
              IF no_inline_common_length(ms, as, mz, -1) = mz
              THEN Reads(0, mz + 1) ELSE Reads(0, 0))
    ELSE IF al # mz THEN Reads(0, 0)
    ELSE no_inline_common_length_reads(ms, as, mz, mz)

equals_reads_Enabled(sh, ms, mz, as, al) ==
    IF sh = "z"
    THEN Both(common_length_reads(ms, as, mz, -1),
              IF common_length(ms, as, mz, -1, 0) = mz
              THEN Reads(0, mz + 1) ELSE Reads(0, 0))
    ELSE IF al # mz THEN Reads(0, 0)
    ELSE starts_with_reads(ms, as, mz, mz)

\* operator==(view ltr, view rtr) is rtr.equals(ltr): its reads of ltr, rtr
view_eq_reads_Disabled(ls, lz, rs, rz) == Swap(equals_reads_Disabled("v", rs, rz, ls, lz))

starts_with_reads_Disabled(sh, ms, mz, as, al) ==
    CASE sh = "z" -> Reads(Len(std_string(as)), Len(std_string(as)) + 1)
      [] sh = "n" -> Reads(mz, Min(al, mz))
      [] sh = "v" -> IF substr(ms, mz, 0, al).thrown THEN Reads(0, 0)
                     ELSE IF substr(ms, mz, 0, al).val.str # ms
                     THEN Reads(0, view_eq_reads_Disabled(
                                       as, al, substr(ms, mz, 0, al).val.str,
                                       substr(ms, mz, 0, al).val.size).content)
                     ELSE Swap(view_eq_reads_Disabled(
                                   as, al, substr(ms, mz, 0, al).val.str,
                                   substr(ms, mz, 0, al).val.size))
      [] sh = "s" -> Reads(al, al)

starts_with_reads_Enabled(sh, ms, mz, as, al) ==
    IF sh = "z" THEN starts_with_reads(ms, as, mz, -1)
    ELSE starts_with_reads(ms, as, mz, al)

\* the reads of the view s.substr(mz - al, al) compared with the needle
ends_with_tail_reads_Disabled(sh, ms, mz, as, al) ==
    IF sh \in {"z", "n"} THEN Reads(mz, 0)
    ELSE IF substr(ms, mz, mz - al, al).thrown THEN Reads(0, 0)
    ELSE IF substr(ms, mz, mz - al, al).val.str # Adv(ms, mz - al)
    THEN Reads(0, 0)
    ELSE IF sh = "v"
    THEN Offset(view_eq_reads_Disabled(substr(ms, mz, mz - al, al).val.str,
                                       substr(ms, mz, mz - al, al).val.size, as, al),
                mz - al)
    ELSE Offset(equals_reads_Disabled("s", substr(ms, mz, mz - al, al).val.str,
                                      substr(ms, mz, mz - al, al).val.size, as, al),
                mz - al)

ends_with_reads_Disabled(sh, ms, mz, as, al) ==
    IF sh = "z"
    THEN Both(Reads(0, Len(std_string(as)) + 1),
              IF Len(std_string(as)) > mz \/ mz = 0 THEN Reads(0, 0)
              ELSE ends_with_tail_reads_Disabled(sh, ms, mz, as, Len(std_string(as))))
    ELSE Both(IF sh = "n" THEN Reads(0, al) ELSE Reads(0, 0),
              IF al > mz \/ mz = 0 THEN Reads(0, 0)
              ELSE ends_with_tail_reads_Disabled(sh, ms, mz, as, al))

ends_with_reads_Enabled(sh, ms, mz, as, al) ==
    IF sh = "z" THEN ends_with_reads(ms, as, mz - 1, length(as) - 1)
    ELSE ends_with_reads(ms, as, mz - 1, al - 1)

compare_reads_Disabled(sh, ms, mz, as, al) ==
    CASE sh = "z" -> Reads(mz, Len(std_string(as)) + 1)
      [] sh = "n" -> Reads(mz, Min(mz, al))
      [] OTHER -> compare_reads(ms, as, mz, al)

compare_reads_Enabled(sh, ms, mz, as, al) ==
    IF sh = "z" THEN compare_reads(ms, as, mz, -1) ELSE compare_reads(ms, as, mz, al)

ReadsStartsWith ==
    \E sh \in Shapes :
        Call("starts_with", sh,
             Ret(starts_with_reads_Enabled(sh, m_str, m_size, a_str, a_len)),
             Ret(starts_with_reads_Disabled(sh, m_str, m_size, a_str, a_len)))

ReadsEndsWith ==
    \E sh \in Shapes :
        Call("ends_with", sh,
             Ret(ends_with_reads_Enabled(sh, m_str, m_size, a_str, a_len)),
             Ret(ends_with_reads_Disabled(sh, m_str, m_size, a_str, a_len)))

ReadsEquals ==
    \E sh \in Shapes :
        Call("equals", sh,
             Ret(equals_reads_Enabled(sh, m_str, m_size, a_str, a_len)),
             Ret(equals_reads_Disabled(sh, m_str, m_size, a_str, a_len)))

ReadsCompare ==
    \E sh \in Shapes :
        Call("compare", sh,
             Ret(compare_reads_Enabled(sh, m_str, m_size, a_str, a_len)),
             Ret(compare_reads_Disabled(sh, m_str, m_size, a_str, a_len)))

NextReads ==
    \/ ReadsStartsWith
    \/ ReadsEndsWith
    \/ ReadsEquals
    \/ ReadsCompare

SpecReads == Init /\ [][NextReads]_vars

(***************************************************************************)
(* The recursion of the algorithms of namespace details, one call per      *)
(* step.  op names the algorithm; its arguments are content = m_str,       *)
(* content_limit = m_size, search_text = a_str, search_limit = a_len (for  *)
(* str_hash: str + pos = m_str, limit = m_size; for ends_with:             *)
(* content_pos = m_size - 1, search_pos = a_len - 1).  shape is "call"     *)
(* while a call is being evaluated and "return" once one has returned      *)
(* without calling itself; a_pos counts the calls made and dm.of keeps the *)
(* content length of the first call.  offset, found_pos and match_len do   *)
(* not steer the recursion and are left out.                               *)
(***************************************************************************)
Algorithms ==
    {"str_hash", "starts_with", "common_length", "ends_with", "compare", "contains",
     "index_of", "index_of_any", "index_of_nonmatching", "last_index_of",
     "last_index_of_any", "last_index_of_nonmatching"}

InitRecursion ==
    /\ \E mem \in UnitSeqs(MaxLen) : m_str = Ptr(mem, 0)
    /\ m_size \in 0..MaxLen
    /\ \E nmem \in UnitSeqsUpTo(MaxLen) :
          /\ a_str = Ptr(nmem \o <<0>>, 0)
          /\ a_len = Len(nmem)
    /\ a_pos = 1
    /\ dm = Whole(m_size)
    /\ da = Whole(a_len)
    /\ charSigned = TRUE
    /\ overflowTraps = FALSE
    /\ rangeCheck = TRUE
    /\ errThrows = TRUE
    /\ op \in Algorithms
    /\ shape = "call"
    /\ rec = Ret(0)
    /\ itr = Ret(0)

\* the call returns a value computed without a further call of itself
Return ==
    /\ shape' = "return"
    /\ UNCHANGED <<m_str, m_size, a_str, a_len, a_pos, dm, da, charSigned, overflowTraps,
                   rangeCheck, errThrows, op, rec, itr>>

\* a faulty variant: the algorithm calls itself with the arguments it was given
Recurse_same_arguments(content_step, search_step, limit_step) ==
    /\ a_pos' = a_pos + 1
    /\ UNCHANGED <<m_str, m_size, a_str, a_len, dm, da, charSigned, overflowTraps,
                   rangeCheck, errThrows, op, shape, rec, itr>>

\* the call calls itself with content + content_step,
\* search_text + search_step, content_limit - 1 and search_limit - limit_step
Recurse(content_step, search_step, limit_step) ==
    /\ m_str' = Adv(m_str, content_step)
    /\ a_str' = Adv(a_str, search_step)
    /\ m_size' = m_size - 1
    /\ a_len' = a_len - limit_step
    /\ a_pos' = a_pos + 1
    /\ UNCHANGED <<dm, da, charSigned, overflowTraps, rangeCheck, errThrows, op, shape,
                   rec, itr>>

CallStrHash ==
    /\ op = "str_hash"
    /\ shape = "call"
    /\ IF m_size = 0 \/ At(m_str, 0) = 0 THEN Return ELSE Recurse(1, 0, 0)

CallStartsWith ==
    /\ op = "starts_with"
    /\ shape = "call"
    /\ IF \/ a_len = 0
          \/ m_size = 0
          \/ At(m_str, 0) # At(a_str, 0)
          \/ At(m_str, 0) = 0
       THEN Return ELSE Recurse(1, 1, 1)

CallCommonLength ==
    /\ op = "common_length"
    /\ shape = "call"
    /\ IF \/ a_len = 0
          \/ m_size = 0
          \/ At(m_str, 0) # At(a_str, 0)
          \/ At(m_str, 0) = 0
       THEN Return ELSE Recurse(1, 1, 1)

CallEndsWith ==
    /\ op = "ends_with"
    /\ shape = "call"
    /\ IF \/ a_len - 1 < 0
          \/ m_size - 1 < 0
          \/ At(m_str, m_size - 1) # At(a_str, a_len - 1)
       THEN Return ELSE Recurse(0, 0, 1)

CallCompare ==
    /\ op = "compare"
    /\ shape = "call"
    /\ IF \/ a_len = 0
          \/ m_size = 0
          \/ CharVal(At(m_str, 0)) > CharVal(At(a_str, 0))
          \/ CharVal(At(m_str, 0)) < CharVal(At(a_str, 0))
          \/ At(m_str, 0) = 0
       THEN Return ELSE Recurse(1, 1, 1)

CallContains ==
    /\ op = "contains"
    /\ shape = "call"
    /\ IF \/ m_size < a_len
          \/ m_size = 0
          \/ compare(m_str, a_str, a_len, a_len) = 0
       THEN Return ELSE Recurse(1, 0, 0)

CallIndexOf ==
    /\ op = "index_of"
    /\ shape = "call"
    /\ IF \/ m_size < a_len
          \/ m_size = 0
          \/ starts_with(m_str, a_str, a_len, a_len)
       THEN Return ELSE Recurse(1, 0, 0)

CallIndexOfAny ==
    /\ op = "index_of_any"
    /\ shape = "call"
    /\ IF \/ m_size = 0
          \/ a_len = 0
          \/ index_of(a_str, m_str, a_len, 1, 0) >= 0
       THEN Return ELSE Recurse(1, 0, 0)

CallIndexOfNonmatching ==
    /\ op = "index_of_nonmatching"
    /\ shape = "call"
    /\ IF m_size = 0 \/ index_of(a_str, m_str, a_len, 1, 0) < 0
       THEN Return ELSE Recurse(1, 0, 0)

CallLastIndexOf ==
    /\ op = "last_index_of"
    /\ shape = "call"
    /\ IF m_size < a_len \/ m_size = 0 THEN Return ELSE Recurse(1, 0, 0)

CallLastIndexOfAny ==
    /\ op = "last_index_of_any"
    /\ shape = "call"
    /\ IF m_size = 0 THEN Return ELSE Recurse(1, 0, 0)

CallLastIndexOfNonmatching ==
    /\ op = "last_index_of_nonmatching"
    /\ shape = "call"
    /\ IF m_size = 0 THEN Return ELSE Recurse(1, 0, 0)

NextRecursion ==
    \/ CallStrHash
    \/ CallStartsWith
    \/ CallCommonLength
    \/ CallEndsWith
    \/ CallCompare
    \/ CallContains
    \/ CallIndexOf
    \/ CallIndexOfAny
    \/ CallIndexOfNonmatching
    \/ CallLastIndexOf
    \/ CallLastIndexOfAny
    \/ CallLastIndexOfNonmatching

\* a call that has been made is evaluated
SpecRecursion == InitRecursion /\ [][NextRecursion]_vars /\ WF_vars(NextRecursion)

(***************************************************************************)
(* Properties.  Each is a predicate on the state a call leaves: op and     *)
(* shape name the call, rec and itr hold its outcome under the two         *)
(* strategies.                                                             *)
(***************************************************************************)
NoError == ~rec.thrown /\ ~itr.thrown

\* C1: in each call shape, starts_with and ends_with return the same boolean
\* under the recursive strategy as under the iterative one, for every content
\* and every needle, and neither strategy signals an error.
C1_PrefixSuffixAgree ==
    op \in {"starts_with", "ends_with"} => NoError /\ rec.val = itr.val

\* C2: in each call shape, find, rfind and contains return the same position
\* (or npos) or the same boolean under both strategies.
C2_SearchAgree ==
    op \in {"find", "rfind", "contains"} => rec.val = itr.val

\* C3: in each call shape, find_first_of, find_first_not_of, find_last_of and
\* find_last_not_of return the same position (or npos) under both strategies,
\* empty content and empty character sets included.
C3_CharSetAgree ==
    op \in {"find_first_of", "find_first_not_of", "find_last_of", "find_last_not_of"}
        => rec.val = itr.val

\* C4: equals returns the same boolean under both strategies, and compare a
\* result of the same sign in the call shapes where the two strategies have
\* their own implementation (zero-terminated pointer, pointer and length),
\* zero code units and code units with the high bit set included.
C4_EqualsCompareAgree ==
    /\ op = "equals" => rec.val = itr.val
    /\ (op = "compare" /\ shape \in {"z", "n"}) => Sign(rec.val) = Sign(itr.val)

\* C5: str_hash(s, pos, limit) and str_hash_loop(s, pos, limit) are the same
\* 32-bit value for every zero-terminated s, position and limit, and so
\* hash_code() of a view is the same under both strategies.
C5_HashAgree ==
    op \in {"str_hash", "hash_code"} => rec.val = itr.val

\* C6: for all views a and b, sub-views and views holding a zero code unit
\* included, under either strategy: a.equals(b) implies
\* a.hash_code() = b.hash_code().
C6_EqualsImpliesSameHash ==
    (op = "equals" /\ shape = "v") =>
        /\ rec.val => hash_code_Enabled(m_str, m_size) = hash_code_Enabled(a_str, a_len)
        /\ itr.val => hash_code_Disabled(m_str, m_size) = hash_code_Disabled(a_str, a_len)

\* the code units the argument stands for in the call shape used
ArgUnits == Needle(shape, a_str, a_len)

\* C7: for every view s, the empty one included, in every call shape and
\* under every policy configuration, s.starts_with(s), s.ends_with(s),
\* s.starts_with("") and s.ends_with("") are true and signal no error.
C7_SelfAndEmptyAffix ==
    (/\ op \in {"starts_with", "ends_with"}
     /\ (ArgUnits = Units(m_str, m_size) \/ ArgUnits = <<>>))
        => rec = Ret(TRUE) /\ itr = Ret(TRUE)

\* C8: for every view s and every start < s.size(),
\* s.substr(start, s.size() - start).equals(s.back(s.size() - start)) is true.
C8_SubstrEqualsBack ==
    (/\ op = "equals"
     /\ dm.f = "substr" /\ dm.index < dm.of /\ dm.len = dm.of - dm.index
     /\ da.f = "back" /\ da.of = dm.of /\ da.len = dm.of - dm.index)
        => rec = Ret(TRUE) /\ itr = Ret(TRUE)

\* C9: for all views a and b, of any lengths and holding any code units,
\* sign(a.compare(b)) = -sign(b.compare(a)).
C9_CompareAntisymmetric ==
    (op = "compare" /\ shape = "v") =>
        /\ Sign(rec.val) = -Sign(compare_Enabled("v", a_str, a_len, m_str, m_size))
        /\ Sign(itr.val) = -Sign(compare_Disabled("v", a_str, a_len, m_str, m_size))

\* C10: for every view s and every needle, in any call shape,
\* s.contains(needle) = (s.find(needle) # npos).
C10_ContainsIffFound ==
    op = "contains" =>
        /\ rec.val = (find_Enabled(shape, m_str, m_size, a_str, a_len) # npos)
        /\ itr.val = (find_Disabled(shape, m_str, m_size, a_str, a_len) # npos)

\* C11: for every view s, every start < s.size() and every len, the default
\* npos and lengths for which start + len wraps around included,
\* s.substr(start, len) has size min(len, s.size() - start) and its i-th code
\* unit is s[start + i].
C11_SubstrClamps ==
    (op = "substr" /\ a_pos < m_size) =>
        /\ ~rec.thrown
        /\ rec.val.size = Min(a_len, m_size - a_pos)
        /\ \A i \in 0..(rec.val.size - 1) :
              At(rec.val.str, i) = At(m_str, a_pos + i)

\* C12: for every view s, the empty one included, and every n, under every
\* policy configuration, front(n) and back(n) signal no error and return a
\* view of size min(n, s.size()) holding the first, respectively the last,
\* min(n, s.size()) code units of s.
C12_FrontBackClamp ==
    LET k == Min(a_len, m_size) IN
    /\ op = "front_n" =>
          /\ ~rec.thrown
          /\ rec.val.size = k
          /\ \A i \in 0..(k - 1) : At(rec.val.str, i) = At(m_str, i)
    /\ op = "back_n" =>
          /\ ~rec.thrown
          /\ rec.val.size = k
          /\ \A i \in 0..(k - 1) : At(rec.val.str, i) = At(m_str, m_size - k + i)

\* the single-element accessors, the index each reads and whether that index
\* is outside the view
Accessors == {"operator[]", "at", "front", "back"}

AccessIndex ==
    CASE op \in {"operator[]", "at"} -> a_pos
      [] op = "front" -> 0
      [] OTHER -> m_size - 1

AccessOutside == IF op \in {"operator[]", "at"} THEN a_pos >= m_size ELSE m_size = 0

\* C13: operator[](i), at(i), front() and back().  With bounds checking
\* enabled an access outside the view (i >= size(), or front()/back() on an
\* empty view) raises an error under the throwing policy and returns the zero
\* code unit without an error under the empty-value policy; an access inside
\* the view returns the code unit at i and never signals; with bounds
\* checking disabled no access signals an error, whatever the error policy.
C13_ElementAccess ==
    op \in Accessors =>
        /\ (rangeCheck /\ AccessOutside) =>
              IF errThrows THEN rec.thrown ELSE rec = Ret(0)
        /\ ~AccessOutside => rec = Ret(At(m_str, AccessIndex))
        /\ ~rangeCheck => ~rec.thrown

\* C13 witness: with checking enabled and the empty-value policy, operator[]
\* one past the end of a non-empty view has returned the zero code unit
C13_Witness ==
    /\ op = "operator[]"
    /\ rangeCheck /\ ~errThrows
    /\ m_size > 0 /\ a_pos = m_size
    /\ rec = Ret(0)
    /\ At(m_str, 0) # 0

\* C14 as stated: substr(start, len) with start beyond the view's length
\* signals an error under the throwing policy and returns an empty view,
\* signalling nothing, under the empty-value policy; with start < size() it
\* never signals an error.
C14_SubstrOutOfBounds ==
    op = "substr" =>
        /\ a_pos > m_size =>
              IF errThrows THEN rec.thrown
              ELSE ~rec.thrown /\ rec.val.size = 0
        /\ a_pos < m_size => ~rec.thrown

\* C14 amended: the above holds with bounds checking enabled, where a start
\* equal to size() is out of bounds as well; with bounds checking disabled
\* substr never signals an error, whatever the start and the error policy.
C14_SubstrOutOfBoundsChecked ==
    op = "substr" =>
        /\ (rangeCheck /\ a_pos >= m_size) =>
              IF errThrows THEN rec.thrown
              ELSE ~rec.thrown /\ rec.val.size = 0
        /\ a_pos < m_size => ~rec.thrown
        /\ ~rangeCheck => ~rec.thrown

\* C14 witness: with checking enabled and the empty-value policy, substr of a
\* non-empty view with a start beyond its length has returned an empty view
C14_Witness ==
    /\ op = "substr"
    /\ rangeCheck /\ ~errThrows
    /\ m_size > 0 /\ a_pos > m_size /\ a_len > 0
    /\ ~rec.thrown /\ rec.val.size = 0

\* the outcome of the scanning member called name, in call shape sh, on the
\* receiver and the argument of the state, under each strategy
OutcomeEnabled(name, sh) ==
    CASE name = "starts_with" -> starts_with_Enabled(sh, m_str, m_size, a_str, a_len)
      [] name = "ends_with" -> ends_with_Enabled(sh, m_str, m_size, a_str, a_len)
      [] name = "equals" -> Ret(equals_Enabled(sh, m_str, m_size, a_str, a_len))
      [] name = "compare" -> Ret(compare_Enabled(sh, m_str, m_size, a_str, a_len))
      [] name = "contains" -> Ret(contains_Enabled(sh, m_str, m_size, a_str, a_len))
      [] name = "find" -> Ret(find_Enabled(sh, m_str, m_size, a_str, a_len))
      [] name = "rfind" -> Ret(rfind_Enabled(sh, m_str, m_size, a_str, a_len))
      [] name = "find_first_of" -> Ret(find_first_of_Enabled(sh, m_str, m_size, a_str, a_len))
      [] name = "find_first_not_of" ->
            Ret(find_first_not_of_Enabled(sh, m_str, m_size, a_str, a_len))
      [] name = "find_last_of" -> Ret(find_last_of_Enabled(sh, m_str, m_size, a_str, a_len))
      [] OTHER -> Ret(find_last_not_of_Enabled(sh, m_str, m_size, a_str, a_len))

OutcomeDisabled(name, sh) ==
    CASE name = "starts_with" -> starts_with_Disabled(sh, m_str, m_size, a_str, a_len)
      [] name = "ends_with" -> ends_with_Disabled(sh, m_str, m_size, a_str, a_len)
      [] name = "equals" -> Ret(equals_Disabled(sh, m_str, m_size, a_str, a_len))
      [] name = "compare" -> Ret(compare_Disabled(sh, m_str, m_size, a_str, a_len))
      [] name = "contains" -> Ret(contains_Disabled(sh, m_str, m_size, a_str, a_len))
      [] name = "find" -> Ret(find_Disabled(sh, m_str, m_size, a_str, a_len))
      [] name = "rfind" -> Ret(rfind_Disabled(sh, m_str, m_size, a_str, a_len))
      [] name = "find_first_of" -> Ret(find_first_of_Disabled(sh, m_str, m_size, a_str, a_len))
      [] name = "find_first_not_of" ->
            Ret(find_first_not_of_Disabled(sh, m_str, m_size, a_str, a_len))
      [] name = "find_last_of" -> Ret(find_last_of_Disabled(sh, m_str, m_size, a_str, a_len))
      [] OTHER -> Ret(find_last_not_of_Disabled(sh, m_str, m_size, a_str, a_len))

ScanOps ==
    {"starts_with", "ends_with", "equals", "compare", "contains", "find", "rfind",
     "find_first_of", "find_first_not_of", "find_last_of", "find_last_not_of"}

\* two outcomes are the same answer: both thrown, or the same value (for
\* compare, a value of the same sign)
SameAnswer(name, r, q) ==
    /\ r.thrown = q.thrown
    /\ ~r.thrown => IF name = "compare" THEN Sign(r.val) = Sign(q.val) ELSE r.val = q.val

\* the argument holds no zero code unit inside its declared length
ArgHasNoZero == \A i \in 0..(a_len - 1) : At(a_str, i) # 0

\* C15: under each policy configuration, for every content and every needle
\* holding no zero code unit, each scanning operation gives the same answer
\* in the four call shapes: zero-terminated pointer, pointer and length,
\* view, owned string.
C15_ShapesAgree ==
    (op \in ScanOps /\ ArgHasNoZero) =>
        \A sh \in Shapes :
            /\ SameAnswer(op, rec, OutcomeEnabled(op, sh))
            /\ SameAnswer(op, itr, OutcomeDisabled(op, sh))

\* C16: starting from a view over L code units, after any sequence of
\* substr(start, len) (the default len included), front(n) and back(n) calls
\* that signal no error, the resulting view is empty or denotes a range that
\* lies inside the original range [0, L): its size never exceeds the code
\* units that remain in the source.
C16_DerivedInsideSource ==
    (a_pos > 0 /\ op = "none") =>
        \/ m_size = 0
        \/ m_str.buf = a_str.buf /\ m_str.off + m_size <= dm.of

\* the code units of the content view
Content == Units(m_str, m_size)

\* the sign of the lexicographic comparison of two code-unit sequences
LexSign(s, t) ==
    LET D == {i \in 1..Min(Len(s), Len(t)) : s[i] # t[i]} IN
    IF D = {} THEN Sign(Len(s) - Len(t))
    ELSE LET i == CHOOSE x \in D : \A y \in D : x <= y IN Sign(s[i] - t[i])

\* C17: content.compare(needle) is negative, zero or positive exactly when
\* the content's code-unit sequence is lexicographically less than, equal to
\* or greater than the needle's; when one is a proper prefix of the other the
\* longer one compares greater.
C17_CompareLexicographic ==
    op = "compare" =>
        /\ NoError
        /\ Sign(rec.val) = LexSign(Content, ArgUnits)
        /\ Sign(itr.val) = LexSign(Content, ArgUnits)

\* the offsets i at which content[i, i + n) equals the needle of length n
Occurrences ==
    {i \in 0..m_size :
        /\ i + Len(ArgUnits) <= m_size
        /\ \A k \in 1..Len(ArgUnits) : Content[i + k] = ArgUnits[k]}

\* C18: find returns the smallest offset at which the needle occurs in the
\* content and rfind the largest; both return npos when there is none; for
\* the empty needle find returns 0 and rfind the content length.
C18_FindRfindOffsets ==
    /\ op = "find" =>
          /\ NoError
          /\ rec.val = Lowest(Occurrences)
          /\ itr.val = Lowest(Occurrences)
    /\ op = "rfind" =>
          /\ NoError
          /\ rec.val = Highest(Occurrences)
          /\ itr.val = Highest(Occurrences)

\* the offsets whose content code unit occurs in the character set
Members == {i \in 0..(m_size - 1) : \E k \in 1..Len(ArgUnits) : Content[i + 1] = ArgUnits[k]}

\* C19: find_first_of returns the smallest offset, find_last_of the largest,
\* whose content code unit occurs in the set, and npos when none does; with
\* an empty set both return npos.
C19_FirstLastOf ==
    /\ op = "find_first_of" =>
          /\ NoError
          /\ rec.val = Lowest(Members)
          /\ itr.val = Lowest(Members)
    /\ op = "find_last_of" =>
          /\ NoError
          /\ rec.val = Highest(Members)
          /\ itr.val = Highest(Members)

\* the offsets whose content code unit does not occur in the character set
NonMembers == (0..(m_size - 1)) \ Members

\* C20: find_first_not_of returns the smallest offset whose content code
\* unit does not occur in the set, and npos when every content code unit
\* occurs in it, except that empty content with an empty set returns 0.
C20_FirstNotOf ==
    op = "find_first_not_of" =>
        /\ NoError
        /\ rec.val = (IF m_size = 0 /\ ArgUnits = <<>> THEN 0 ELSE Lowest(NonMembers))
        /\ itr.val = (IF m_size = 0 /\ ArgUnits = <<>> THEN 0 ELSE Lowest(NonMembers))

\* C21: find_last_not_of returns the largest offset whose content code unit
\* does not occur in the set, and npos when every content code unit occurs in
\* it; with an empty set and non-empty content that is the last offset
\* size() - 1, while find_last_of returns npos; with empty content and an
\* empty set it returns 0.
C21_LastNotOf ==
    /\ op = "find_last_not_of" =>
          /\ NoError
          /\ rec.val = (IF m_size = 0 /\ ArgUnits = <<>> THEN 0 ELSE Highest(NonMembers))
          /\ itr.val = (IF m_size = 0 /\ ArgUnits = <<>> THEN 0 ELSE Highest(NonMembers))
    /\ (op = "find_last_not_of" /\ ArgUnits = <<>> /\ m_size > 0) =>
          rec.val = m_size - 1 /\ itr.val = m_size - 1
    /\ (op = "find_last_of" /\ ArgUnits = <<>> /\ m_size > 0) =>
          rec.val = npos /\ itr.val = npos

PosOps ==
    {"find", "rfind", "find_first_of", "find_first_not_of", "find_last_of",
     "find_last_not_of"}

\* the positions returned under the two strategies
Positions == {rec.val, itr.val}

SameUnits == a_len = m_size /\ \A i \in 0..(m_size - 1) : At(m_str, i) = At(a_str, i)

\* C23: for a needle given with an explicit length (pointer and length, view
\* or owned string), s.equals(needle) is true if and only if the needle's
\* length equals s.size() and all s.size() code units are pairwise equal,
\* also when the sequences hold a zero code unit; a length mismatch yields
\* false.
C23_EqualsExplicitLength ==
    (op = "equals" /\ shape \in {"n", "v", "s"}) =>
        /\ NoError
        /\ rec.val = SameUnits
        /\ itr.val = SameUnits

\* the code units hash_code takes in: those of the view up to its length or
\* the first zero code unit
RECURSIVE HashedUnits(_, _)
HashedUnits(i, n) ==
    IF n = 0 \/ At(m_str, i) = 0 THEN <<>> ELSE <<At(m_str, i)>> \o HashedUnits(i + 1, n - 1)

\* the fold acc = c XOR (acc * 33) modulo 2^32 from the last unit of s back to
\* the first, acc initially 5381
RECURSIVE HashFold(_)
HashFold(s) ==
    IF s = <<>> THEN U32(5381) ELSE XorChar(Head(s), Mul33(HashFold(Tail(s))))

\* C24: hash_code() of a view equals the fold, from the last hashed code unit
\* back to the first, of acc = c XOR (acc * 33) with acc initially 5381 and
\* all arithmetic wrapping modulo 2^32, over the view's code units up to its
\* length or the first zero code unit; the empty view hashes to 5381.
C24_HashIsFold ==
    op = "hash_code" =>
        /\ NoError
        /\ rec.val = HashFold(HashedUnits(0, m_size))
        /\ itr.val = HashFold(HashedUnits(0, m_size))
        /\ m_size = 0 => rec.val = U32(5381) /\ itr.val = U32(5381)

\* the offsets of the code units of s that are not whitespace
Inked == {i \in 0..(m_size - 1) : At(m_str, i) \notin {Space, Tab}}

\* r is the sub-view of s from its first to its last non-whitespace code
\* unit, or a view of length 0 when s has none
Trimmed(r) ==
    /\ ~r.thrown
    /\ IF Inked = {} THEN r.val.size = 0
       ELSE /\ r.val.str = Adv(m_str, Lowest(Inked))
            /\ r.val.size = Highest(Inked) - Lowest(Inked) + 1

\* C25: s.trim() is the sub-view of s from the first to the last code unit
\* not in the whitespace set, so it has no leading or trailing whitespace
\* and keeps interior whitespace; for an empty or all-whitespace s it is a
\* view of length 0; no error is signalled.
C25_TrimBounds == op = "trim" => Trimmed(rec) /\ Trimmed(itr)

\* for the views a = (m_str, m_size) and b = (a_str, a_len), with e the
\* value of a.equals(b) and c that of a.compare(b): the operators b == a and
\* b != a are complementary, and exactly one of b < a, b == a, b > a holds
Trichotomy(e, c) ==
    /\ e # (c # 0)
    /\ \/ (c > 0) /\ ~e /\ ~(c < 0)
       \/ ~(c > 0) /\ e /\ ~(c < 0)
       \/ ~(c > 0) /\ ~e /\ (c < 0)

\* C26: for all views a and b, of any lengths, views holding a zero code
\* unit included, a.equals(b) is true exactly when a.compare(b) = 0, so that
\* operator== and operator!= on two views are complementary and exactly one
\* of a < b, a == b, a > b holds.
C26_EqualsIffCompareZero ==
    (op = "equals" /\ shape = "v") =>
        /\ rec.val = (compare_Enabled("v", m_str, m_size, a_str, a_len) = 0)
        /\ itr.val = (compare_Disabled("v", m_str, m_size, a_str, a_len) = 0)
        /\ Trichotomy(rec.val, compare_Enabled("v", m_str, m_size, a_str, a_len))
        /\ Trichotomy(itr.val, compare_Disabled("v", m_str, m_size, a_str, a_len))

\* C27: equals on views is reflexive and symmetric under either strategy:
\* for all views a and b, views with a zero code unit inside their length
\* included, a.equals(a) is true and a.equals(b) = b.equals(a).
C27_EqualsReflexiveSymmetric ==
    (op = "equals" /\ shape = "v") =>
        /\ equals_Enabled("v", m_str, m_size, m_str, m_size)
        /\ equals_Disabled("v", m_str, m_size, m_str, m_size)
        /\ rec.val = equals_Enabled("v", a_str, a_len, m_str, m_size)
        /\ itr.val = equals_Disabled("v", a_str, a_len, m_str, m_size)

\* C28: for every view s and every needle view n with n.size() <= s.size(),
\* sequences with a zero code unit included, s.ends_with(n) is true exactly
\* when s.rfind(n) = s.size() - n.size(), and s.starts_with(n) is true
\* exactly when s.find(n) = 0.
C28_AffixIffFoundAtEnd ==
    /\ (op = "ends_with" /\ shape = "v" /\ a_len <= m_size) =>
          /\ NoError
          /\ rec.val = (rfind_Enabled("v", m_str, m_size, a_str, a_len) = m_size - a_len)
          /\ itr.val = (rfind_Disabled("v", m_str, m_size, a_str, a_len) = m_size - a_len)
    /\ (op = "starts_with" /\ shape = "v" /\ a_len <= m_size) =>
          /\ NoError
          /\ rec.val = (find_Enabled("v", m_str, m_size, a_str, a_len) = 0)
          /\ itr.val = (find_Disabled("v", m_str, m_size, a_str, a_len) = 0)

\* the reads r stay inside the receiver's size() units and, for a needle
\* given with a length, inside its declared length
ReadsInside(r) ==
    /\ r.content <= m_size
    /\ shape \in {"n", "v"} => r.needle <= a_len
    /\ shape = "s" => r.needle <= a_len + 1

\* C29: no scanning operation, under either strategy and in any call shape,
\* reads a code unit of the receiver at an index >= size(), or a code unit
\* of an explicit-length needle at an index >= its declared length (stated
\* here for starts_with, ends_with, equals and compare).
C29_ReadsInsideView ==
    op \in {"starts_with", "ends_with", "equals", "compare"} =>
        ReadsInside(rec.val) /\ ReadsInside(itr.val)

\* C30: every recursive algorithm called with explicit lengths terminates
\* for every input: each recursive call strictly decreases the remaining
\* content length (or limit, or position), so at most content length + 1
\* calls are made, and then the algorithm returns.
C30_RecursionTerminates ==
    /\ [](a_pos <= dm.of + 1)
    /\ [][shape' = "call" => m_size' < m_size /\ m_size' >= 0]_vars
    /\ <>(shape = "return")

\* last_index_of_any walks a whole content of MaxLen units: MaxLen + 1 calls
C30_Witness ==
    /\ op = "last_index_of_any"
    /\ shape = "return"
    /\ dm.of = MaxLen
    /\ a_pos = MaxLen + 1

====
